---- MODULE Spec2Model ----
(***************************************************************************)
(* The client-side report controller of arxiv_daily.                       *)
(*                                                                         *)
(* The repository holds two copies of the controller script: the one at    *)
(* src/README.md lines 119..482 (cards are hidden with the CSS class       *)
(* "hidden"; it has collectSelectedPapers, the Markdown export and         *)
(* deleteCategory) and the one at src/assets/scripts.js lines 1..315       *)
(* (cards are hidden with the inline style "display: none").  A page loads *)
(* one of them; the variable script says which.                            *)
(*                                                                         *)
(* A text is a sequence of tokens (a token is a character, or the label    *)
(* "Authors:" taken as one unit), so that trim, split, replace and join    *)
(* are computed, not assumed.                                              *)
(***************************************************************************)
EXTENDS Integers, Sequences, FiniteSets, TLC

VARIABLES script, page, dom, storage, last, out

vars == <<script, page, dom, storage, last, out>>

(***************************************************************************)
(* Bounds of the model.                                                    *)
(***************************************************************************)
NumSections == 2
NumCards == 3

(***************************************************************************)
(* Texts.                                                                  *)
(***************************************************************************)
IsSpace(t) == t = " "

RECURSIVE TrimStart(_)
TrimStart(s) ==
    IF s = <<>> THEN <<>>
    ELSE IF IsSpace(Head(s)) THEN TrimStart(Tail(s)) ELSE s

RECURSIVE TrimEnd(_)
TrimEnd(s) ==
    IF s = <<>> THEN <<>>
    ELSE IF IsSpace(s[Len(s)]) THEN TrimEnd(SubSeq(s, 1, Len(s) - 1)) ELSE s

\* String.prototype.trim
Trim(s) == TrimEnd(TrimStart(s))

\* String.prototype.replace(label, ''): the first occurrence of the token goes
ReplaceFirst(s, label) ==
    IF \E i \in 1..Len(s) : s[i] = label
    THEN LET i == CHOOSE k \in 1..Len(s) :
                      s[k] = label /\ \A j \in 1..(k - 1) : s[j] # label
         IN SubSeq(s, 1, i - 1) \o SubSeq(s, i + 1, Len(s))
    ELSE s

\* String.prototype.split(sep): always at least one piece, '' for the empty text
RECURSIVE Split(_, _)
Split(s, sep) ==
    IF \E i \in 1..Len(s) : s[i] = sep
    THEN LET i == CHOOSE k \in 1..Len(s) :
                      s[k] = sep /\ \A j \in 1..(k - 1) : s[j] # sep
         IN <<SubSeq(s, 1, i - 1)>> \o Split(SubSeq(s, i + 1, Len(s)), sep)
    ELSE <<s>>

\* Array.prototype.join(', ')
RECURSIVE Join(_)
Join(parts) ==
    IF parts = <<>> THEN <<>>
    ELSE IF Len(parts) = 1 THEN parts[1]
    ELSE parts[1] \o <<",", " ">> \o Join(Tail(parts))

\* Array.prototype.map over a sequence of texts
MapTrim(parts) == [i \in 1..Len(parts) |-> Trim(parts[i])]

\* the texts a user types: the empty one, a plain one, one with blanks around
Texts == {<<>>, <<"a">>, <<" ", "b", " ">>}

(***************************************************************************)
(* The document.  dom.main is the child list of .main-content, in document *)
(* order: a section heading, then its papers container, and so on; a       *)
(* papers container holds its paper cards in order.  dom.sidebar is the    *)
(* list of sidebar entries.                                                *)
(***************************************************************************)
PaperIds == 1..NumCards
\* the identifiers a handler can be given: one of them names no element
SectionIds == 1..(NumSections + 1)
NoId == 0

\* the name a section heading shows: the last category is "Others"
SectionName(s) ==
    IF s = NumSections THEN <<"Others">> ELSE <<"S", ToString(s)>>

\* a heading's textContent: the name, then the number of papers in brackets
HeaderText(s) == SectionName(s) \o <<" ", "(", "n", ")">>

SectionHeader(s) ==
    [tag |-> "section-header", id |-> s, cards |-> <<>>, text |-> HeaderText(s)]

PapersContainer(cards) ==
    [tag |-> "papers-container", id |-> NoId, cards |-> cards]

NoContentMessage ==
    [tag |-> "no-content-message", id |-> NoId, cards |-> <<>>]

SidebarItem(s) == [section |-> s, inItem |-> TRUE, active |-> FALSE]

(***************************************************************************)
(* A paper card.  classes is the card's classList, display its inline      *)
(* style.display, toggle its visibility-toggle control.                    *)
(***************************************************************************)
SectionOf(p) == ((p - 1) % NumSections) + 1

\* the rendered fields of card p: three kinds of card alternate, so that full,
\* empty and whitespace-only fields all occur
CardAuthors(p) ==
    CASE p % 3 = 1 -> <<"Authors:", " ", "J", ",", " ", "K">>
      [] p % 3 = 2 -> <<"Authors:">>
      [] OTHER     -> <<"Authors:", " ", "L">>

CardKeywords(p) ==
    CASE p % 3 = 1 -> << <<"k">>, <<" ">>, <<" ", "m">> >>
      [] p % 3 = 2 -> << >>
      [] OTHER     -> << <<>> >>

CardTldr(p) ==
    CASE p % 3 = 1 -> <<"t">>
      [] p % 3 = 2 -> <<>>
      [] OTHER     -> <<" ">>

CardComments(p) ==
    CASE p % 3 = 1 -> <<"c", " ">>
      [] p % 3 = 2 -> <<>>
      [] OTHER     -> <<"d">>

CardAbstract(p) ==
    CASE p % 3 = 2 -> <<>>
      [] OTHER     -> <<" ", "x">>

CardHref(p) == IF p % 3 = 2 THEN <<>> ELSE <<"http", ToString(p)>>

PaperCard(p, toggleClasses) ==
    [ id       |-> p,
      title    |-> <<"T", ToString(p)>>,
      href     |-> CardHref(p),
      authors  |-> CardAuthors(p),
      keywords |-> CardKeywords(p),
      abstract |-> [display |-> "none", button |-> "Show Abstract",
                    text |-> CardAbstract(p)],
      tldr     |-> [view |-> "", edit |-> "none",
                    content |-> CardTldr(p), input |-> CardTldr(p)],
      comments |-> [view |-> "", edit |-> "none", checked |-> (p % 2 = 1),
                    content |-> CardComments(p), input |-> CardComments(p)],
      classes  |-> {"paper-card"},
      display  |-> "",
      toggle   |-> [classes |-> toggleClasses, text |-> "Hide"] ]

\* the cards rendered into section s, in order
RECURSIVE SectionCards(_, _, _)
SectionCards(s, p, tc) ==
    IF p > NumCards THEN <<>>
    ELSE (IF SectionOf(p) = s THEN <<PaperCard(p, tc[p])>> ELSE <<>>)
         \o SectionCards(s, p + 1, tc)

RECURSIVE RenderedMain(_, _)
RenderedMain(s, tc) ==
    IF s > NumSections THEN <<>>
    ELSE <<SectionHeader(s), PapersContainer(SectionCards(s, 1, tc))>>
         \o RenderedMain(s + 1, tc)

\* the page as the report generator renders it: every card shown and labelled
\* "Hide", every section heading with its sidebar entry
RenderedPage(tc, sizeClasses) ==
    [ main        |-> RenderedMain(1, tc),
      sidebar     |-> [s \in 1..NumSections |-> SidebarItem(s)],
      mainClasses |-> {<<"main-content">>} \cup sizeClasses,
      selector    |-> "medium" ]

(***************************************************************************)
(* Document queries.                                                       *)
(***************************************************************************)
\* document.querySelectorAll('.paper-card'): the cards in document order
RECURSIVE CardsFrom(_, _)
CardsFrom(main, i) ==
    IF i > Len(main) THEN <<>> ELSE main[i].cards \o CardsFrom(main, i + 1)

AllCards(d) == CardsFrom(d.main, 1)

CardIdsIn(d) == {AllCards(d)[i].id : i \in 1..Len(AllCards(d))}

\* document.getElementById: the index in dom.main of the element, 0 for null
getElementById(d, id) ==
    IF \E i \in 1..Len(d.main) : d.main[i].id = id
    THEN CHOOSE i \in 1..Len(d.main) :
             d.main[i].id = id /\ \A j \in 1..(i - 1) : d.main[j].id # id
    ELSE 0

\* document.querySelectorAll('.section-header'): their indices in dom.main
SectionHeaders(d) == {i \in 1..Len(d.main) : d.main[i].tag = "section-header"}

\* the card's style attribute as the browser serialises the inline style
StyleAttr(card) ==
    IF card.display = "" THEN <<>>
    ELSE <<"display", ":", " ", card.display, ";">>

\* the attribute selector [style*="..."]: a substring match
IsInfix(needle, s) ==
    \E i \in 0..(Len(s) - Len(needle)) : SubSeq(s, i + 1, i + Len(needle)) = needle

\* what the user sees: a card is shown unless the class hidden or the inline
\* style takes it out of the layout
Shown(card) == "hidden" \notin card.classes /\ card.display # "none"

\* the document with every card whose id is in DOMAIN repl replaced by repl[id]
ReplaceCards(d, repl) ==
    [d EXCEPT !.main =
        [i \in 1..Len(d.main) |->
            [d.main[i] EXCEPT !.cards =
                [k \in 1..Len(d.main[i].cards) |->
                    IF d.main[i].cards[k].id \in DOMAIN repl
                    THEN repl[d.main[i].cards[k].id]
                    ELSE d.main[i].cards[k]]]]]

\* the card of the document with identifier p
CardOf(d, p) ==
    LET cs == AllCards(d) IN cs[CHOOSE i \in 1..Len(cs) : cs[i].id = p]

\* Element.remove() of dom.main's i-th child
RemoveAt(main, i) == SubSeq(main, 1, i - 1) \o SubSeq(main, i + 1, Len(main))

(***************************************************************************)
(* What a handler call gives the user: a blocking notice (alert), a file   *)
(* download, an uncaught exception.  out is what the latest call gave.     *)
(***************************************************************************)
NoFile == [name |-> "", content |-> <<>>]

NoOutput == [alert |-> "", file |-> NoFile, error |-> ""]

Alert(msg) == [alert |-> msg, file |-> NoFile, error |-> ""]

Download(name, content) ==
    [alert |-> "", file |-> [name |-> name, content |-> content], error |-> ""]

Throw(e) == [alert |-> "", file |-> NoFile, error |-> e]

(***************************************************************************)
(* src/README.md: visibility.                                              *)
(***************************************************************************)
\* the card after togglePaperVisibility(button, paperId) on its control
FlipCard(c) ==
    IF "hidden" \in c.classes
    THEN [c EXCEPT !.classes = @ \ {"hidden"}, !.toggle.text = "Hide"]
    ELSE [c EXCEPT !.classes = @ \cup {"hidden"}, !.toggle.text = "Show"]

\* togglePaperVisibility(button, paperId), button being the control of card p
togglePaperVisibility(d, p) ==
    ReplaceCards(d, [q \in {p} |-> FlipCard(CardOf(d, q))])

\* the cards of the element after dom.main's i-th child
SiblingCardIds(d, i) ==
    {d.main[i + 1].cards[k].id : k \in 1..Len(d.main[i + 1].cards)}

SetCardShown_Unlabelled(c, show) ==
    IF show THEN [c EXCEPT !.classes = @ \ {"hidden"}]
    ELSE [c EXCEPT !.classes = @ \cup {"hidden"}]

\* one card of the section after toggleSectionSelection(sectionId, show)
SetCardShown(c, show) ==
    LET hasButton == "visibility-toggle" \in c.toggle.classes
    IN IF show
       THEN [c EXCEPT !.classes = @ \ {"hidden"},
                      !.toggle.text = IF hasButton THEN "Hide" ELSE @]
       ELSE [c EXCEPT !.classes = @ \cup {"hidden"},
                      !.toggle.text = IF hasButton THEN "Show" ELSE @]

toggleSectionSelection_AllCards(d, sectionId, show) ==
    IF getElementById(d, sectionId) = 0 THEN [dom |-> d, out |-> NoOutput]
    ELSE [dom |-> ReplaceCards(d, [q \in CardIdsIn(d) |->
                                      SetCardShown(CardOf(d, q), show)]),
          out |-> NoOutput]

\* toggleSectionSelection(sectionId, show): [dom, out]
toggleSectionSelection(d, sectionId, show) ==
    LET i == getElementById(d, sectionId)
    IN IF i = 0 THEN [dom |-> d, out |-> NoOutput]
       ELSE IF i + 1 > Len(d.main)
            \* section.nextElementSibling is null
            THEN [dom |-> d, out |-> Throw("TypeError")]
            ELSE [dom |-> ReplaceCards(d, [q \in SiblingCardIds(d, i) |->
                                              SetCardShown(CardOf(d, q), show)]),
                  out |-> NoOutput]

(***************************************************************************)
(* src/README.md: collecting and exporting.                                *)
(***************************************************************************)
PaperRecord_UntrimmedKeywords(c) ==
    [ id       |-> c.id,
      title    |-> c.title,
      pdf_url  |-> c.href,
      authors  |-> MapTrim(Split(Trim(ReplaceFirst(c.authors, "Authors:")), ",")),
      keywords |-> SelectSeq(c.keywords, LAMBDA v : Trim(v) # <<>>),
      abstract |-> Trim(c.abstract.text),
      tldr     |-> Trim(c.tldr.content),
      comments |-> Trim(c.comments.content) ]

\* the export record of one card
PaperRecord(c) ==
    [ id       |-> c.id,
      title    |-> c.title,
      pdf_url  |-> c.href,
      authors  |-> MapTrim(Split(Trim(ReplaceFirst(c.authors, "Authors:")), ",")),
      keywords |-> MapTrim(SelectSeq(c.keywords, LAMBDA v : Trim(v) # <<>>)),
      abstract |-> Trim(c.abstract.text),
      tldr     |-> Trim(c.tldr.content),
      comments |-> Trim(c.comments.content) ]

collectSelectedPapers_Unfiltered(d) ==
    [i \in 1..Len(AllCards(d)) |-> PaperRecord(AllCards(d)[i])]

collectSelectedPapers(d) ==
    LET visiblePaperCards ==
            SelectSeq(AllCards(d), LAMBDA c : "hidden" \notin c.classes)
    IN [i \in 1..Len(visiblePaperCards) |-> PaperRecord(visiblePaperCards[i])]

\* exportSelectedPapers(): what the call gives.  The file's content is the
\* list of records: JSON.stringify writes strings and arrays of strings so
\* that JSON.parse reads the same list back.
exportSelectedPapers(d) ==
    LET selectedPapers == collectSelectedPapers(d)
    IN IF Len(selectedPapers) = 0
       THEN Alert("No visible papers to export.")
       ELSE Download("exported_papers.json", selectedPapers)

\* the blocks the Markdown export writes for one paper, one per +=
MarkdownOf(paper) ==
    <<[kind |-> "##", text |-> paper.title]>>
    \o (IF Len(paper.authors) > 0
        THEN <<[kind |-> "Authors", text |-> Join(paper.authors)]>> ELSE <<>>)
    \o (IF paper.pdf_url # <<>>
        THEN <<[kind |-> "PDF", text |-> paper.pdf_url]>> ELSE <<>>)
    \o (IF Len(paper.keywords) > 0
        THEN <<[kind |-> "Keywords", text |-> Join(paper.keywords)]>> ELSE <<>>)
    \o (IF paper.tldr # <<>>
        THEN <<[kind |-> "TL;DR", text |-> paper.tldr]>> ELSE <<>>)
    \o (IF paper.abstract # <<>>
        THEN <<[kind |-> "Abstract", text |-> paper.abstract]>> ELSE <<>>)
    \o (IF paper.comments # <<>>
        THEN <<[kind |-> "Comments", text |-> paper.comments]>> ELSE <<>>)
    \o <<[kind |-> "---", text |-> <<>>]>>

RECURSIVE MarkdownOfAll(_)
MarkdownOfAll(papers) ==
    IF papers = <<>> THEN <<>>
    ELSE MarkdownOf(Head(papers)) \o MarkdownOfAll(Tail(papers))

exportSelectedPapersToMarkdown_Unchecked(d) ==
    Download("exported_papers.md",
             <<[kind |-> "#", text |-> <<"Selected Papers">>]>>
             \o MarkdownOfAll(collectSelectedPapers(d)))

exportSelectedPapersToMarkdown_AllCards(d) ==
    IF Len(collectSelectedPapers(d)) = 0
    THEN Alert("No visible papers to export.")
    ELSE Download("exported_papers.md",
                  <<[kind |-> "#", text |-> <<"Selected Papers">>]>>
                  \o MarkdownOfAll([i \in 1..Len(AllCards(d)) |->
                                       PaperRecord(AllCards(d)[i])]))

\* exportSelectedPapersToMarkdown(): what the call gives
exportSelectedPapersToMarkdown(d) ==
    LET selectedPapers == collectSelectedPapers(d)
    IN IF Len(selectedPapers) = 0
       THEN Alert("No visible papers to export.")
       ELSE Download("exported_papers.md",
                     <<[kind |-> "#", text |-> <<"Selected Papers">>]>>
                     \o MarkdownOfAll(selectedPapers))

(***************************************************************************)
(* src/README.md: deleting a category.                                     *)
(***************************************************************************)
\* document.querySelector('.sidebar-link[data-section="id"]'): index or 0
SidebarLink(d, categoryId) ==
    IF \E i \in 1..Len(d.sidebar) : d.sidebar[i].section = categoryId
    THEN CHOOSE i \in 1..Len(d.sidebar) :
             /\ d.sidebar[i].section = categoryId
             /\ \A j \in 1..(i - 1) : d.sidebar[j].section # categoryId
    ELSE 0

\* sectionHeader.remove(); papersContainer.remove(), the header being
\* dom.main's i-th child
RemoveSection(d, i) == [d EXCEPT !.main = RemoveAt(RemoveAt(d.main, i + 1), i)]

RemoveSidebarItem_Skipped(d, k) == d

\* sidebarItem.remove() when the k-th sidebar link is inside a .sidebar-item
RemoveSidebarItem(d, k) ==
    IF d.sidebar[k].inItem
    THEN [d EXCEPT !.sidebar = RemoveAt(d.sidebar, k)]
    ELSE d

ShowNoContentMessage_Unchecked(d) ==
    [d EXCEPT !.main = Append(@, NoContentMessage)]

\* the "No paper categories available." message once no heading is left
ShowNoContentMessage(d) ==
    IF SectionHeaders(d) = {}
    THEN [d EXCEPT !.main = Append(@, NoContentMessage)]
    ELSE d

\* deleteCategory after the user has confirmed: [dom, out]
RemoveCategory(d, categoryId) ==
    LET i == getElementById(d, categoryId) IN
    IF i = 0 THEN [dom |-> d, out |-> NoOutput]
    ELSE IF i + 1 > Len(d.main) THEN [dom |-> d, out |-> NoOutput]
    ELSE
      LET d1 == RemoveSection(d, i)
          k == SidebarLink(d1, categoryId)
      IN IF k = 0
         \* querySelector gave null: .closest throws and the handler ends here
         THEN [dom |-> d1, out |-> Throw("TypeError")]
         ELSE [dom |-> ShowNoContentMessage(RemoveSidebarItem(d1, k)),
               out |-> NoOutput]

deleteCategory_Unconfirmed(d, categoryId, confirmed) ==
    RemoveCategory(d, categoryId)

\* deleteCategory(categoryId, event), confirmed being the user's answer to
\* the confirm() prompt: [dom, out]
deleteCategory(d, categoryId, confirmed) ==
    IF ~confirmed THEN [dom |-> d, out |-> NoOutput]
    ELSE RemoveCategory(d, categoryId)

(***************************************************************************)
(* src/README.md: the card size and the page's load handler.  A class name *)
(* is a tuple, so that `card-size-${size}` is built from its parts.        *)
(***************************************************************************)
Levels == {"small", "medium", "large", "full"}

NoPreference == "null"

SizeClass(size) == <<"card-size-", size>>

updateCardSize_KeepsFull(d, st, size) ==
    [dom |-> [d EXCEPT !.mainClasses =
                 (@ \ {SizeClass("small"), SizeClass("medium"),
                       SizeClass("large")}) \cup {SizeClass(size)}],
     storage |-> size]

\* updateCardSize(size): [dom, storage]
updateCardSize(d, st, size) ==
    [dom |-> [d EXCEPT !.mainClasses =
                 (@ \ {SizeClass("small"), SizeClass("medium"),
                       SizeClass("large"), SizeClass("full")})
                 \cup {SizeClass(size)}],
     storage |-> size]

\* the DOMContentLoaded handler's restore of the preferred card size, run on
\* the page as rendered: [dom, storage]
DOMContentLoaded(d, st) ==
    IF st # NoPreference
    THEN LET r == updateCardSize(d, st, st)
         IN [dom |-> [r.dom EXCEPT !.selector = st], storage |-> r.storage]
    ELSE [dom |-> d, storage |-> st]

(***************************************************************************)
(* The page of src/README.md: its state after loading and the calls a user *)
(* can make.  last is the latest call: its name, its arguments and the     *)
(* document it was made on.                                                *)
(***************************************************************************)
PlainToggles == [p \in PaperIds |-> {"visibility-toggle"}]

Init ==
    /\ script = "README.md"
    /\ page = RenderedPage(PlainToggles, {})
    /\ storage = NoPreference
    /\ dom = DOMContentLoaded(page, storage).dom
    /\ last = [op |-> "load", args |-> <<storage>>, before |-> page]
    /\ out = NoOutput

Call_togglePaperVisibility(p) ==
    /\ script = "README.md"
    /\ p \in CardIdsIn(dom)
    /\ dom' = togglePaperVisibility(dom, p)
    /\ out' = NoOutput
    /\ last' = [op |-> "togglePaperVisibility", args |-> <<p>>, before |-> dom]
    /\ UNCHANGED <<script, page, storage>>

Call_toggleSectionSelection(sectionId, show) ==
    /\ script = "README.md"
    /\ dom' = toggleSectionSelection(dom, sectionId, show).dom
    /\ out' = toggleSectionSelection(dom, sectionId, show).out
    /\ last' = [op |-> "toggleSectionSelection", args |-> <<sectionId, show>>,
                before |-> dom]
    /\ UNCHANGED <<script, page, storage>>

Call_deleteCategory(categoryId, confirmed) ==
    /\ script = "README.md"
    /\ dom' = deleteCategory(dom, categoryId, confirmed).dom
    /\ out' = deleteCategory(dom, categoryId, confirmed).out
    /\ last' = [op |-> "deleteCategory", args |-> <<categoryId, confirmed>>,
                before |-> dom]
    /\ UNCHANGED <<script, page, storage>>

Call_exportSelectedPapers ==
    /\ script = "README.md"
    /\ out' = exportSelectedPapers(dom)
    /\ last' = [op |-> "exportSelectedPapers", args |-> <<>>, before |-> dom]
    /\ UNCHANGED <<script, page, dom, storage>>

Call_exportSelectedPapersToMarkdown ==
    /\ script = "README.md"
    /\ out' = exportSelectedPapersToMarkdown(dom)
    /\ last' = [op |-> "exportSelectedPapersToMarkdown", args |-> <<>>,
                before |-> dom]
    /\ UNCHANGED <<script, page, dom, storage>>

Next ==
    \/ \E p \in PaperIds : Call_togglePaperVisibility(p)
    \/ \E sectionId \in SectionIds, show \in BOOLEAN :
           Call_toggleSectionSelection(sectionId, show)
    \/ \E categoryId \in SectionIds, confirmed \in BOOLEAN :
           Call_deleteCategory(categoryId, confirmed)
    \/ Call_exportSelectedPapers
    \/ Call_exportSelectedPapersToMarkdown

Spec == Init /\ [][Next]_vars

(***************************************************************************)
(* src/assets/scripts.js: visibility by inline style, and its JSON export. *)
(***************************************************************************)
\* togglePaperVisibility(button, paperId), button being the control of card p
scripts_togglePaperVisibility(d, p) ==
    LET c == CardOf(d, p)
    IN ReplaceCards(d, [q \in {p} |->
           IF "visibility-show" \in c.toggle.classes
           THEN [c EXCEPT !.display = "none"]
           ELSE [c EXCEPT !.display = ""]])

\* toggleSectionSelection(sectionId, show): [dom, out]
scripts_toggleSectionSelection(d, sectionId, show) ==
    LET i == getElementById(d, sectionId)
    IN IF i = 0 THEN [dom |-> d, out |-> NoOutput]
       ELSE IF i + 1 > Len(d.main)
            THEN [dom |-> d, out |-> Throw("TypeError")]
            ELSE [dom |-> ReplaceCards(d, [q \in SiblingCardIds(d, i) |->
                              [CardOf(d, q) EXCEPT
                                  !.display = IF show THEN "" ELSE "none"]]),
                  out |-> NoOutput]

\* the export record of one card: the comments only if the box is checked
scripts_PaperRecord(c) ==
    [PaperRecord(c) EXCEPT
        !.comments = IF c.comments.checked THEN Trim(c.comments.content)
                     ELSE <<>>]

\* exportSelectedPapers(): what the call gives
scripts_exportSelectedPapers(d) ==
    LET visiblePaperCards ==
            SelectSeq(AllCards(d),
                      LAMBDA c : ~IsInfix(<<"display", ":", " ", "none">>,
                                          StyleAttr(c)))
        selectedPapers ==
            [i \in 1..Len(visiblePaperCards) |->
                scripts_PaperRecord(visiblePaperCards[i])]
    IN IF Len(selectedPapers) = 0
       THEN Alert("No visible papers to export.")
       ELSE Download("exported_papers.json", selectedPapers)

(***************************************************************************)
(* The page of src/assets/scripts.js.  Whether a card's control carries    *)
(* the class visibility-show is the renderer's choice.                     *)
(***************************************************************************)
ToggleClassChoices ==
    [PaperIds -> {{"visibility-toggle"}, {"visibility-toggle", "visibility-show"}}]

InitScripts ==
    /\ script = "assets/scripts.js"
    /\ \E tc \in ToggleClassChoices : page = RenderedPage(tc, {})
    /\ dom = page
    /\ storage = NoPreference
    /\ last = [op |-> "load", args |-> <<storage>>, before |-> page]
    /\ out = NoOutput

Call_scripts_togglePaperVisibility(p) ==
    /\ script = "assets/scripts.js"
    /\ p \in CardIdsIn(dom)
    /\ dom' = scripts_togglePaperVisibility(dom, p)
    /\ out' = NoOutput
    /\ LET twice == last.op = "togglePaperVisibility" /\ last.args = <<p>>
       IN last' = [op |-> "togglePaperVisibility", args |-> <<p>>,
                   before |-> dom, twice |-> twice,
                   first |-> IF twice THEN last.before ELSE dom]
    /\ UNCHANGED <<script, page, storage>>

Call_scripts_toggleSectionSelection(sectionId, show) ==
    /\ script = "assets/scripts.js"
    /\ dom' = scripts_toggleSectionSelection(dom, sectionId, show).dom
    /\ out' = scripts_toggleSectionSelection(dom, sectionId, show).out
    /\ last' = [op |-> "toggleSectionSelection", args |-> <<sectionId, show>>,
                before |-> dom]
    /\ UNCHANGED <<script, page, storage>>

Call_scripts_exportSelectedPapers ==
    /\ script = "assets/scripts.js"
    /\ out' = scripts_exportSelectedPapers(dom)
    /\ last' = [op |-> "exportSelectedPapers", args |-> <<>>, before |-> dom]
    /\ UNCHANGED <<script, page, dom, storage>>

\* the index in dom.main of the papers container that holds card p
ContainerOf(d, p) ==
    CHOOSE i \in 1..Len(d.main) :
        \E k \in 1..Len(d.main[i].cards) : d.main[i].cards[k].id = p

\* the section name exportMarkdown reads for card c: the heading before the
\* card's container, up to the first bracket, trimmed
SectionNameOf(d, c) ==
    Trim(Split(d.main[ContainerOf(d, c.id) - 1].text, "(")[1])

\* the keys of papersBySection, in the order they are first set
RECURSIVE SectionKeys(_, _, _)
SectionKeys(d, cards, seen) ==
    IF cards = <<>> THEN <<>>
    ELSE LET name == SectionNameOf(d, Head(cards))
         IN IF name \in seen THEN SectionKeys(d, Tail(cards), seen)
            ELSE <<name>> \o SectionKeys(d, Tail(cards), seen \cup {name})

\* the lines exportMarkdown writes for one paper
ReportOf(c) ==
    LET keywords == SelectSeq(MapTrim(c.keywords), LAMBDA k : k # <<>>)
        comments == IF c.comments.checked THEN c.comments.content ELSE <<>>
        tldr == c.tldr.content
    IN <<[kind |-> "url", text |-> c.href],
         [kind |-> "title", text |-> c.title]>>
       \o (IF Len(keywords) > 0
           THEN <<[kind |-> "Keywords", text |-> Join(keywords)]>> ELSE <<>>)
       \o (IF comments # <<>>
           THEN <<[kind |-> "Comments", text |-> comments]>> ELSE <<>>)
       \o (IF tldr # <<>>
           THEN <<[kind |-> "TL;DR", text |-> tldr]>> ELSE <<>>)
       \o <<[kind |-> "keywords-line", text |-> <<>>],
            [kind |-> "intro-line", text |-> <<>>]>>

RECURSIVE ReportOfAll(_)
ReportOfAll(cards) ==
    IF cards = <<>> THEN <<>>
    ELSE ReportOf(Head(cards)) \o ReportOfAll(Tail(cards))

\* the report of the sections keys, each with its papers among cards
RECURSIVE ReportOfSections(_, _, _)
ReportOfSections(d, keys, cards) ==
    IF keys = <<>> THEN <<>>
    ELSE LET papers ==
                 SelectSeq(cards, LAMBDA c : SectionNameOf(d, c) = Head(keys))
         IN (IF Head(keys) = <<"Others">> \/ Len(papers) = 0 THEN <<>>
             ELSE <<[kind |-> "#", text |-> Head(keys)]>> \o ReportOfAll(papers))
            \o ReportOfSections(d, Tail(keys), cards)

\* exportMarkdown(): what the call gives
exportMarkdown(d) ==
    LET visiblePapers ==
            SelectSeq(AllCards(d), LAMBDA c : "hidden" \notin c.classes)
    IN IF Len(visiblePapers) = 0
       THEN Alert("No papers selected for export. Please make sure at least one paper is visible.")
       ELSE Download("paper_report.md",
                     ReportOfSections(d, SectionKeys(d, visiblePapers, {}),
                                      visiblePapers))

Call_exportMarkdown ==
    /\ script = "assets/scripts.js"
    /\ out' = exportMarkdown(dom)
    /\ last' = [op |-> "exportMarkdown", args |-> <<>>, before |-> dom]
    /\ UNCHANGED <<script, page, dom, storage>>

NextScripts ==
    \/ \E p \in PaperIds : Call_scripts_togglePaperVisibility(p)
    \/ \E sectionId \in SectionIds, show \in BOOLEAN :
           Call_scripts_toggleSectionSelection(sectionId, show)
    \/ Call_scripts_exportSelectedPapers
    \/ Call_exportMarkdown

SpecScripts == InitScripts /\ [][NextScripts]_vars

(***************************************************************************)
(* Either page: the visibility and JSON-export handlers of both scripts.   *)
(***************************************************************************)
InitBoth == Init \/ InitScripts

NextBoth ==
    \/ \E p \in PaperIds : Call_togglePaperVisibility(p)
    \/ \E sectionId \in SectionIds, show \in BOOLEAN :
           Call_toggleSectionSelection(sectionId, show)
    \/ Call_exportSelectedPapers
    \/ \E p \in PaperIds : Call_scripts_togglePaperVisibility(p)
    \/ \E sectionId \in SectionIds, show \in BOOLEAN :
           Call_scripts_toggleSectionSelection(sectionId, show)
    \/ Call_scripts_exportSelectedPapers

SpecBoth == InitBoth /\ [][NextBoth]_vars

(***************************************************************************)
(* Properties.                                                             *)
(***************************************************************************)
\* the identifiers of the shown cards, in document order
ShownIds(d) ==
    LET shown == SelectSeq(AllCards(d), Shown)
    IN [i \in 1..Len(shown) |-> shown[i].id]

HeaderIds(d) == {d.main[i].id : i \in SectionHeaders(d)}

SidebarSections(d) == {d.sidebar[i].section : i \in 1..Len(d.sidebar)}

Containers(d) == {i \in 1..Len(d.main) : d.main[i].tag = "papers-container"}

PlaceholderShown(d) ==
    \E i \in 1..Len(d.main) : d.main[i].tag = "no-content-message"

\* C1: after any togglePaperVisibility and toggleSectionSelection calls, the
\* JSON export holds exactly one record per shown card and none for a hidden
\* card, in the document order of the cards (either script).
C1_JsonExportIsTheShownCards ==
    last.op = "exportSelectedPapers" =>
        [i \in 1..Len(out.file.content) |-> out.file.content[i].id]
            = ShownIds(dom)

C1_Witness ==
    /\ last.op = "exportSelectedPapers"
    /\ Len(out.file.content) >= 2
    /\ \E i \in 1..Len(AllCards(dom)) : ~Shown(AllCards(dom)[i])

\* C2: on the README.md page, started with every card shown and labelled
\* "Hide", a card is hidden if and only if its control is labelled "Show".
C2_VisibilityAgreesWithLabel ==
    \A i \in 1..Len(AllCards(dom)) :
        LET c == AllCards(dom)[i]
        IN (~Shown(c)) <=> (c.toggle.text = "Show")

C2_Witness ==
    /\ last.op = "toggleSectionSelection"
    /\ last.args[2] = FALSE
    /\ \E i \in 1..Len(AllCards(dom)) : ~Shown(AllCards(dom)[i])
    /\ \E i \in 1..Len(AllCards(dom)) : Shown(AllCards(dom)[i])
    /\ dom # last.before

\* C3: a deleteCategory call removes the heading, its papers container and its
\* sidebar entry together, or removes nothing; so the sidebar entries and the
\* section headings always name the same categories.
C3_DeleteCategoryIsAtomic ==
    /\ SidebarSections(dom) = HeaderIds(dom)
    /\ last.op = "deleteCategory" =>
         LET b == last.before
             id == last.args[1]
         IN \/ dom = b
            \/ /\ id \in HeaderIds(b) /\ id \in SidebarSections(b)
               /\ HeaderIds(dom) = HeaderIds(b) \ {id}
               /\ SidebarSections(dom) = SidebarSections(b) \ {id}
               /\ Cardinality(Containers(dom)) = Cardinality(Containers(b)) - 1
               /\ CardIdsIn(dom)
                    = CardIdsIn(b) \ SiblingCardIds(b, getElementById(b, id))

C3_Witness ==
    /\ last.op = "deleteCategory"
    /\ last.args[2]
    /\ dom # last.before
    /\ HeaderIds(dom) # {}

\* C4: a declined deleteCategory leaves the headings, the cards, the sidebar
\* entries and the placeholder as they were, and gives the user nothing.
C4_DeclinedDeleteChangesNothing ==
    (last.op = "deleteCategory" /\ ~last.args[2]) =>
        dom = last.before /\ out = NoOutput

C4_Witness ==
    /\ last.op = "deleteCategory"
    /\ ~last.args[2]
    /\ last.args[1] \in HeaderIds(dom)

\* C5: with no card shown, either export of README.md gives the notice and no
\* file; a file is given only when some card is shown.
C5_NothingShownNothingExported ==
    last.op \in {"exportSelectedPapers", "exportSelectedPapersToMarkdown"} =>
        LET anyShown == ShownIds(dom) # <<>>
        IN /\ ~anyShown => (out.alert = "No visible papers to export."
                            /\ out.file = NoFile)
           /\ out.file # NoFile => anyShown
           /\ anyShown => out.file # NoFile

C5_Witness ==
    /\ last.op = "exportSelectedPapersToMarkdown"
    /\ AllCards(dom) # <<>>
    /\ ShownIds(dom) = <<>>
    /\ out.alert = "No visible papers to export."

\* reading a Markdown file back: the positions of its paper headings, the
\* blocks of its n-th paper, and the text of a paper's block of a given kind
\* (empty when the paper has no such block)
PaperHeadings(md) ==
    SelectSeq([i \in 1..Len(md) |-> i], LAMBDA i : md[i].kind = "##")

PaperBlocks(md, n) ==
    LET h == PaperHeadings(md)
    IN SubSeq(md, h[n], IF n < Len(h) THEN h[n + 1] - 1 ELSE Len(md))

BlockText(blocks, kind) ==
    IF \E i \in 1..Len(blocks) : blocks[i].kind = kind
    THEN blocks[CHOOSE i \in 1..Len(blocks) : blocks[i].kind = kind].text
    ELSE <<>>

\* C8: in every page state the Markdown export renders the papers the JSON
\* export serialises in that state: as many, in the same order, and each
\* rendered field with the record's value.
C8_MarkdownAgreesWithJson ==
    last.op = "exportSelectedPapersToMarkdown" =>
        LET json == exportSelectedPapers(dom).file.content
            md == out.file.content
        IN /\ Len(PaperHeadings(md)) = Len(json)
           /\ \A n \in 1..Len(json) :
                LET b == PaperBlocks(md, n)
                IN /\ BlockText(b, "##") = json[n].title
                   /\ BlockText(b, "Authors") = Join(json[n].authors)
                   /\ BlockText(b, "PDF") = json[n].pdf_url
                   /\ BlockText(b, "Keywords") = Join(json[n].keywords)
                   /\ BlockText(b, "TL;DR") = json[n].tldr
                   /\ BlockText(b, "Abstract") = json[n].abstract
                   /\ BlockText(b, "Comments") = json[n].comments

C8_Witness ==
    /\ last.op = "exportSelectedPapersToMarkdown"
    /\ Len(PaperHeadings(out.file.content)) >= 2
    /\ \E i \in 1..Len(AllCards(dom)) : ~Shown(AllCards(dom)[i])

\* C10: a confirmed deleteCategory on the only remaining category leaves no
\* section heading and shows the placeholder; the placeholder is shown only
\* when no section heading remains.
C10_PlaceholderIffNoCategory ==
    /\ PlaceholderShown(dom) => HeaderIds(dom) = {}
    /\ (/\ last.op = "deleteCategory"
        /\ last.args[2]
        /\ HeaderIds(last.before) = {last.args[1]})
       => (HeaderIds(dom) = {} /\ PlaceholderShown(dom))

C10_Witness ==
    /\ last.op = "deleteCategory"
    /\ last.args[2]
    /\ HeaderIds(last.before) = {last.args[1]}
    /\ PlaceholderShown(dom)

(***************************************************************************)
(* The README.md page and its card size: the size selector's change        *)
(* handler, and reloading the page (the preference outlives the page).     *)
(***************************************************************************)
RenderedSizes == {{}} \cup {{SizeClass(l)} : l \in Levels}

StoredPreferences == {NoPreference} \cup Levels

InitSize ==
    /\ script = "README.md"
    /\ \E sc \in RenderedSizes : page = RenderedPage(PlainToggles, sc)
    /\ \E st \in StoredPreferences :
          /\ storage = DOMContentLoaded(page, st).storage
          /\ dom = DOMContentLoaded(page, st).dom
          /\ last = [op |-> "load", args |-> <<st>>, before |-> page]
    /\ out = NoOutput

\* the user picks a size in #card-size-selector, whose onchange calls
\* updateCardSize(this.value)
Call_updateCardSize(size) ==
    /\ script = "README.md"
    /\ dom' = updateCardSize([dom EXCEPT !.selector = size], storage, size).dom
    /\ storage' = updateCardSize(dom, storage, size).storage
    /\ out' = NoOutput
    /\ last' = [op |-> "updateCardSize", args |-> <<size>>, before |-> dom]
    /\ UNCHANGED <<script, page>>

\* the page is loaded again: the document is the rendered one, then the
\* DOMContentLoaded handler runs on it
Reload ==
    /\ script = "README.md"
    /\ dom' = DOMContentLoaded(page, storage).dom
    /\ storage' = DOMContentLoaded(page, storage).storage
    /\ out' = NoOutput
    /\ last' = [op |-> "load", args |-> <<storage>>, before |-> page]
    /\ UNCHANGED <<script, page>>

NextSize ==
    \/ \E size \in Levels : Call_updateCardSize(size)
    \/ Reload

SpecSize == InitSize /\ [][NextSize]_vars

\* the card-size classes on .main-content
SizeClasses(d) == {c \in d.mainClasses : Len(c) = 2 /\ c[1] = "card-size-"}

\* C6: after an updateCardSize call with one of the fixed levels, and after
\* the load-time restore of a stored preference, .main-content carries
\* exactly one card-size class, the one of the value applied last, and the
\* stored preferredCardSize is that value.
C6_OneSizeClassAndStoredPreference ==
    /\ (last.op = "updateCardSize"
        \/ (last.op = "load" /\ last.args[1] # NoPreference))
       => /\ SizeClasses(dom) = {SizeClass(last.args[1])}
          /\ storage = last.args[1]
    /\ storage # NoPreference => SizeClasses(dom) = {SizeClass(storage)}

C6_Witness ==
    /\ last.op = "updateCardSize"
    /\ last.args[1] = "small"
    /\ SizeClasses(last.before) = {SizeClass("full")}
    /\ SizeClasses(page) = {SizeClass("medium")}

(***************************************************************************)
(* The abstract toggle and the TL;DR and comments editors.  The three      *)
(* handlers are the same in src/README.md and src/assets/scripts.js.       *)
(***************************************************************************)
toggleAbstract_NoRelabel(d, p) ==
    LET c == CardOf(d, p)
    IN ReplaceCards(d, [q \in {p} |->
           IF c.abstract.display = "none"
           THEN [c EXCEPT !.abstract.display = "block",
                          !.abstract.button = "Hide Abstract"]
           ELSE [c EXCEPT !.abstract.display = "none"]])

\* toggleAbstract(button), button being the abstract control of card p
toggleAbstract(d, p) ==
    LET c == CardOf(d, p)
    IN ReplaceCards(d, [q \in {p} |->
           IF c.abstract.display = "none"
           THEN [c EXCEPT !.abstract.display = "block",
                          !.abstract.button = "Hide Abstract"]
           ELSE [c EXCEPT !.abstract.display = "none",
                          !.abstract.button = "Show Abstract"]])

\* toggleCommentsEdit(container), container being the comments block of card p
toggleCommentsEdit(d, p) ==
    LET c == CardOf(d, p)
    IN ReplaceCards(d, [q \in {p} |->
           IF c.comments.edit = "none"
           THEN [c EXCEPT !.comments.view = "none", !.comments.edit = "block"]
           ELSE [c EXCEPT !.comments.content = c.comments.input,
                          !.comments.view = "block",
                          !.comments.edit = "none"]])

toggleTldrEdit_CopiesComments(d, p) ==
    LET c == CardOf(d, p)
    IN ReplaceCards(d, [q \in {p} |->
           IF c.tldr.edit = "none"
           THEN [c EXCEPT !.tldr.view = "none", !.tldr.edit = "block"]
           ELSE [c EXCEPT !.tldr.content = c.comments.input,
                          !.tldr.view = "block",
                          !.tldr.edit = "none"]])

\* toggleTldrEdit(container), container being the TL;DR block of card p
toggleTldrEdit(d, p) ==
    LET c == CardOf(d, p)
    IN ReplaceCards(d, [q \in {p} |->
           IF c.tldr.edit = "none"
           THEN [c EXCEPT !.tldr.view = "none", !.tldr.edit = "block"]
           ELSE [c EXCEPT !.tldr.content = c.tldr.input,
                          !.tldr.view = "block",
                          !.tldr.edit = "none"]])

\* the cards the user works on in this page
EditedCards == {1}

\* an abstract is rendered collapsed or expanded, its control labelled to match
RenderedAbstracts ==
    {[display |-> "none", button |-> "Show Abstract"],
     [display |-> "", button |-> "Hide Abstract"]}

InitEdit ==
    /\ script \in {"README.md", "assets/scripts.js"}
    /\ \E ra \in [EditedCards -> RenderedAbstracts] :
          page = ReplaceCards(RenderedPage(PlainToggles, {}),
                    [q \in EditedCards |->
                        [PaperCard(q, PlainToggles[q]) EXCEPT
                            !.abstract.display = ra[q].display,
                            !.abstract.button = ra[q].button]])
    /\ dom = page
    /\ storage = NoPreference
    /\ last = [op |-> "load", args |-> <<storage>>, before |-> page]
    /\ out = NoOutput

\* first is the document before the call before this one, when that call was
\* toggleAbstract on the same control (twice)
Call_toggleAbstract(p) ==
    /\ p \in CardIdsIn(dom)
    /\ dom' = toggleAbstract(dom, p)
    /\ out' = NoOutput
    /\ LET twice == last.op = "toggleAbstract" /\ last.args = <<p>>
       IN last' = [op |-> "toggleAbstract", args |-> <<p>>, before |-> dom,
                   twice |-> twice,
                   first |-> IF twice THEN last.before ELSE dom]
    /\ UNCHANGED <<script, page, storage>>

Call_toggleCommentsEdit(p) ==
    /\ p \in CardIdsIn(dom)
    /\ dom' = toggleCommentsEdit(dom, p)
    /\ out' = NoOutput
    /\ last' = [op |-> "toggleCommentsEdit", args |-> <<p>>, before |-> dom]
    /\ UNCHANGED <<script, page, storage>>

Call_toggleTldrEdit(p) ==
    /\ p \in CardIdsIn(dom)
    /\ dom' = toggleTldrEdit(dom, p)
    /\ out' = NoOutput
    /\ last' = [op |-> "toggleTldrEdit", args |-> <<p>>, before |-> dom]
    /\ UNCHANGED <<script, page, storage>>

\* the user types into the comments textarea of card p, which is displayed
TypeComments(p, text) ==
    /\ p \in CardIdsIn(dom)
    /\ CardOf(dom, p).comments.edit # "none"
    /\ dom' = ReplaceCards(dom, [q \in {p} |->
                  [CardOf(dom, q) EXCEPT !.comments.input = text]])
    /\ out' = NoOutput
    /\ last' = [op |-> "type", args |-> <<p>>, before |-> dom]
    /\ UNCHANGED <<script, page, storage>>

\* the user types into the TL;DR textarea of card p, which is displayed
TypeTldr(p, text) ==
    /\ p \in CardIdsIn(dom)
    /\ CardOf(dom, p).tldr.edit # "none"
    /\ dom' = ReplaceCards(dom, [q \in {p} |->
                  [CardOf(dom, q) EXCEPT !.tldr.input = text]])
    /\ out' = NoOutput
    /\ last' = [op |-> "type", args |-> <<p>>, before |-> dom]
    /\ UNCHANGED <<script, page, storage>>

NextEdit ==
    \/ \E p \in EditedCards : Call_toggleAbstract(p)
    \/ \E p \in EditedCards : Call_toggleCommentsEdit(p)
    \/ \E p \in EditedCards : Call_toggleTldrEdit(p)
    \/ \E p \in EditedCards, text \in Texts : TypeComments(p, text)
    \/ \E p \in EditedCards, text \in Texts : TypeTldr(p, text)

SpecEdit == InitEdit /\ [][NextEdit]_vars

\* C7: when toggleCommentsEdit or toggleTldrEdit switches a container from
\* edit back to view, the view pane's content is the textarea's value at the
\* call (whatever the text, the empty one too), the edit pane is hidden and
\* the view pane shown.
C7_CommitCopiesTheEditedText ==
    /\ last.op = "toggleCommentsEdit" =>
         LET b == CardOf(last.before, last.args[1]).comments
             a == CardOf(dom, last.args[1]).comments
         IN b.edit # "none" =>
              a.content = b.input /\ a.edit = "none" /\ a.view = "block"
    /\ last.op = "toggleTldrEdit" =>
         LET b == CardOf(last.before, last.args[1]).tldr
             a == CardOf(dom, last.args[1]).tldr
         IN b.edit # "none" =>
              a.content = b.input /\ a.edit = "none" /\ a.view = "block"

C7_Witness ==
    /\ last.op = "toggleTldrEdit"
    /\ CardOf(last.before, last.args[1]).tldr.edit # "none"
    /\ CardOf(last.before, last.args[1]).tldr.input = <<>>
    /\ CardOf(last.before, last.args[1]).tldr.content # <<>>
    /\ CardOf(last.before, last.args[1]).comments.input # <<>>

AbstractVisible(a) == a.display # "none"

\* C9: two toggleAbstract calls in a row on the same control bring the
\* abstract block's visibility and the control's label back to what they
\* were before the first call.
C9_ToggleAbstractTwiceRestores ==
    (last.op = "toggleAbstract" /\ last.twice) =>
        LET a0 == CardOf(last.first, last.args[1]).abstract
            a2 == CardOf(dom, last.args[1]).abstract
        IN /\ AbstractVisible(a2) = AbstractVisible(a0)
           /\ a2.button = a0.button

C9_Witness ==
    /\ last.op = "toggleAbstract"
    /\ last.twice
    /\ CardOf(last.first, last.args[1]).abstract.display = ""
    /\ CardOf(dom, last.args[1]).abstract.display = "block"

\* the shown cards of the README.md page, in document order
ShownCards(d) == SelectSeq(AllCards(d), Shown)

HasBlock(blocks, kind) == \E i \in 1..Len(blocks) : blocks[i].kind = kind

\* a field of a card with nothing but blanks in it counts as empty
IsBlank(text) == \A i \in 1..Len(text) : text[i] = " "

\* C11: in the Markdown export each optional block of a paper (authors, PDF,
\* keywords, TL;DR, Abstract, Comments) is written if and only if its source
\* field on the card is non-empty.
C11_OptionalBlockIffFieldNonEmpty ==
    (last.op = "exportSelectedPapersToMarkdown" /\ out.file # NoFile) =>
        \A n \in 1..Len(ShownCards(dom)) :
            LET c == ShownCards(dom)[n]
                b == PaperBlocks(out.file.content, n)
            IN /\ HasBlock(b, "Authors")
                    <=> ~IsBlank(ReplaceFirst(c.authors, "Authors:"))
               /\ HasBlock(b, "PDF") <=> c.href # <<>>
               /\ HasBlock(b, "Keywords")
                    <=> \E k \in 1..Len(c.keywords) : ~IsBlank(c.keywords[k])
               /\ HasBlock(b, "TL;DR") <=> ~IsBlank(c.tldr.content)
               /\ HasBlock(b, "Abstract") <=> ~IsBlank(c.abstract.text)
               /\ HasBlock(b, "Comments") <=> ~IsBlank(c.comments.content)

\* the same for the blocks other than the authors line
C11_BlocksOtherThanAuthors ==
    (last.op = "exportSelectedPapersToMarkdown" /\ out.file # NoFile) =>
        \A n \in 1..Len(ShownCards(dom)) :
            LET c == ShownCards(dom)[n]
                b == PaperBlocks(out.file.content, n)
            IN /\ HasBlock(b, "PDF") <=> c.href # <<>>
               /\ HasBlock(b, "Keywords")
                    <=> \E k \in 1..Len(c.keywords) : ~IsBlank(c.keywords[k])
               /\ HasBlock(b, "TL;DR") <=> ~IsBlank(c.tldr.content)
               /\ HasBlock(b, "Abstract") <=> ~IsBlank(c.abstract.text)
               /\ HasBlock(b, "Comments") <=> ~IsBlank(c.comments.content)

(***************************************************************************)
(* Keyword fields (the same in both scripts).  The "add keyword" control   *)
(* is the last child of its keywords container, after the fields.          *)
(***************************************************************************)
MaxKeywordFields == 3

\* the position of the control among the children of the keywords container
AddKeywordButton(c) == Len(c.keywords) + 1

\* keywordsDiv.insertBefore(newInput, button): the new field is empty
InsertBefore(fields, at, field) ==
    SubSeq(fields, 1, at - 1) \o <<field>> \o SubSeq(fields, at, Len(fields))

\* addKeywordField(button), button being the control of card p
addKeywordField(d, p) ==
    LET c == CardOf(d, p)
    IN ReplaceCards(d, [q \in {p} |->
           [c EXCEPT !.keywords = InsertBefore(@, AddKeywordButton(c), <<>>)]])

\* the cards whose keywords the user works on in this page
KeywordCards == {3}

InitKeywords ==
    /\ script = "README.md"
    /\ page = RenderedPage(PlainToggles, {})
    /\ storage = NoPreference
    /\ dom = DOMContentLoaded(page, storage).dom
    /\ last = [op |-> "load", args |-> <<storage>>, before |-> page]
    /\ out = NoOutput

Call_addKeywordField(p) ==
    /\ p \in CardIdsIn(dom)
    /\ Len(CardOf(dom, p).keywords) < MaxKeywordFields
    /\ dom' = addKeywordField(dom, p)
    /\ out' = NoOutput
    /\ last' = [op |-> "addKeywordField", args |-> <<p>>, before |-> dom]
    /\ UNCHANGED <<script, page, storage>>

\* the user types into the i-th keyword field of card p
TypeKeyword(p, i, text) ==
    /\ p \in CardIdsIn(dom)
    /\ i \in 1..Len(CardOf(dom, p).keywords)
    /\ dom' = ReplaceCards(dom, [q \in {p} |->
                  [CardOf(dom, q) EXCEPT !.keywords[i] = text]])
    /\ out' = NoOutput
    /\ last' = [op |-> "type", args |-> <<p, i>>, before |-> dom]
    /\ UNCHANGED <<script, page, storage>>

NextKeywords ==
    \/ \E p \in KeywordCards : Call_addKeywordField(p)
    \/ \E p \in KeywordCards, i \in 1..MaxKeywordFields, text \in Texts :
           TypeKeyword(p, i, text)
    \/ Call_exportSelectedPapers

SpecKeywords == InitKeywords /\ [][NextKeywords]_vars

\* the keyword fields that are neither empty nor blank, trimmed, in field order
RECURSIVE TrimmedNonBlank(_)
TrimmedNonBlank(fields) ==
    IF fields = <<>> THEN <<>>
    ELSE (IF IsBlank(Head(fields)) THEN <<>> ELSE <<Trim(Head(fields))>>)
         \o TrimmedNonBlank(Tail(fields))

\* the keyword lists the JSON export gives for document d, card by card
ExportedKeywords(d) ==
    LET recs == exportSelectedPapers(d).file.content
    IN [n \in 1..Len(recs) |-> recs[n].keywords]

\* C12: an exported record's keyword list is the trimmed values of the card's
\* keyword fields in field order, empty and blank fields left out; a field
\* added by addKeywordField comes after the card's earlier fields and, empty,
\* leaves the exported keyword lists as they were.
C12_KeywordsTrimmedInFieldOrder ==
    /\ last.op = "exportSelectedPapers" =>
         /\ Len(out.file.content) = Len(ShownCards(dom))
         /\ \A n \in 1..Len(out.file.content) :
              out.file.content[n].keywords
                  = TrimmedNonBlank(ShownCards(dom)[n].keywords)
    /\ last.op = "addKeywordField" =>
         /\ CardOf(dom, last.args[1]).keywords
              = Append(CardOf(last.before, last.args[1]).keywords, <<>>)
         /\ ExportedKeywords(dom) = ExportedKeywords(last.before)

C12_Witness ==
    /\ last.op = "exportSelectedPapers"
    /\ \E n \in 1..Len(out.file.content) :
          /\ ShownCards(dom)[n].keywords = << <<>>, <<" ", "b", " ">>, <<"a">> >>
          /\ out.file.content[n].keywords = << <<"b">>, <<"a">> >>

\* C13: in scripts.js every togglePaperVisibility call flips the card between
\* shown and hidden, so a second call in a row on the same control brings the
\* card's visibility back.
C13_ToggleFlipsTheCard ==
    last.op = "togglePaperVisibility" =>
        LET p == last.args[1]
        IN /\ Shown(CardOf(dom, p)) # Shown(CardOf(last.before, p))
           /\ last.twice => Shown(CardOf(dom, p)) = Shown(CardOf(last.first, p))

\* the titles exportMarkdown wrote, in order
ReportedTitles(file) ==
    LET lines == SelectSeq(file.content, LAMBDA b : b.kind = "title")
    IN [i \in 1..Len(lines) |-> lines[i].text]

\* the titles of the shown cards outside the "Others" category, in order
ShownTitlesOutsideOthers(d) ==
    LET cards == SelectSeq(AllCards(d),
                     LAMBDA c : Shown(c) /\ SectionNameOf(d, c) # <<"Others">>)
    IN [i \in 1..Len(cards) |-> cards[i].title]

\* C14: in scripts.js, after any togglePaperVisibility and
\* toggleSectionSelection calls, exportMarkdown writes an entry for every
\* shown card outside "Others" and for no hidden card, and gives the notice
\* and no file when every card is hidden.
C14_ReportIsTheShownCards ==
    last.op = "exportMarkdown" =>
        IF ShownIds(dom) = <<>>
        THEN out.alert # "" /\ out.file = NoFile
        ELSE /\ out.file # NoFile
             /\ ReportedTitles(out.file) = ShownTitlesOutsideOthers(dom)

\* C15: toggleSectionSelection(sectionId, show) of README.md leaves every card
\* of the named section shown or hidden as show says, its control labelled
\* "Hide" when shown and "Show" when hidden, leaves the cards of every other
\* section as they were, and changes nothing when no element has that id.
C15_SectionToggleSetsItsCardsOnly ==
    last.op = "toggleSectionSelection" =>
        LET before == last.before
            show == last.args[2]
            i == getElementById(before, last.args[1])
        IN IF i = 0 THEN dom = before /\ out = NoOutput
           ELSE /\ CardIdsIn(dom) = CardIdsIn(before)
                /\ \A q \in CardIdsIn(before) :
                       IF q \in SiblingCardIds(before, i)
                       THEN /\ Shown(CardOf(dom, q)) = show
                            /\ CardOf(dom, q).toggle.text =
                                   IF show THEN "Hide" ELSE "Show"
                       ELSE CardOf(dom, q) = CardOf(before, q)

\* a section toggle that changed a card while a card of another section is
\* in the opposite state
C15_Witness ==
    /\ last.op = "toggleSectionSelection"
    /\ getElementById(last.before, last.args[1]) # 0
    /\ dom # last.before
    /\ \E q \in CardIdsIn(dom) :
           /\ q \notin SiblingCardIds(last.before,
                                      getElementById(last.before, last.args[1]))
           /\ Shown(CardOf(dom, q)) # last.args[2]

(***************************************************************************)
(* The scroll handler (src/README.md and src/assets/scripts.js, the same   *)
(* code in both) and the layout it reads.                                  *)
(***************************************************************************)
\* the lookahead of the handler, in pixels
Lookahead == 100

\* the layout: where the first node of the main area starts, and the heights
\* of a heading and of a displayed card, in pixels
PageTop == 200
HeaderHeight == 100
CardHeight == 100

\* the scroll positions the events report
ScrollStep == 100
MaxScrollSteps == 4
ScrollPositions == {ScrollStep * k : k \in 0..MaxScrollSteps}

\* the height of a node of the main area: a hidden card takes no room
Height(node) ==
    IF node.tag = "section-header" THEN HeaderHeight
    ELSE CardHeight * Len(SelectSeq(node.cards, Shown))

RECURSIVE offsetTop(_, _)
\* section.offsetTop of the node at index i of the main area
offsetTop(d, i) ==
    IF i = 1 THEN PageTop ELSE offsetTop(d, i - 1) + Height(d.main[i - 1])

RECURSIVE CurrentSection(_, _, _, _)
\* sections.forEach from index i on: the id of the last heading, in document
\* order, that passes the test, or current when none does
CurrentSection(d, scrollY, i, current) ==
    IF i > Len(d.main) THEN current
    ELSE CurrentSection(d, scrollY, i + 1,
             IF /\ d.main[i].tag = "section-header"
                /\ scrollY >= offsetTop(d, i) - Lookahead
             THEN d.main[i].id ELSE current)

onScroll_KeepsActive(d, scrollY) ==
    LET currentSection == CurrentSection(d, scrollY, 1, NoId)
    IN [d EXCEPT !.sidebar = [k \in 1..Len(d.sidebar) |->
           [d.sidebar[k] EXCEPT !.active =
                @ \/ d.sidebar[k].section = currentSection]]]

\* the scroll listener, with window.scrollY = scrollY
onScroll(d, scrollY) ==
    LET currentSection == CurrentSection(d, scrollY, 1, NoId)
    IN [d EXCEPT !.sidebar = [k \in 1..Len(d.sidebar) |->
           [d.sidebar[k] EXCEPT !.active =
                d.sidebar[k].section = currentSection]]]

Scroll(scrollY) ==
    /\ dom' = onScroll(dom, scrollY)
    /\ out' = NoOutput
    /\ last' = [op |-> "scroll", args |-> <<scrollY>>, before |-> dom]
    /\ UNCHANGED <<script, page, storage>>

NextScroll ==
    \/ \E scrollY \in ScrollPositions : Scroll(scrollY)
    \/ \E sectionId \in SectionIds, show \in BOOLEAN :
           Call_toggleSectionSelection(sectionId, show)
    \/ \E categoryId \in SectionIds, confirmed \in BOOLEAN :
           Call_deleteCategory(categoryId, confirmed)
    \/ \E sectionId \in SectionIds, show \in BOOLEAN :
           Call_scripts_toggleSectionSelection(sectionId, show)

SpecScroll == InitBoth /\ [][NextScroll]_vars

\* the sidebar entries marked active
ActiveLinks(d) == {k \in 1..Len(d.sidebar) : d.sidebar[k].active}

\* the headings whose offset scrollY has passed, with the lookahead
PassedHeaders(d, scrollY) ==
    {i \in SectionHeaders(d) : scrollY >= offsetTop(d, i) - Lookahead}

\* C16: after a scroll event at most one sidebar entry is active: the entry
\* of the lowest heading that scrollY has passed with the 100-pixel lookahead
\* (scrollY >= offsetTop - 100); every other entry is not active, and none is
\* when no heading has been passed.
C16_ActiveIsTheLowestPassedHeading ==
    last.op = "scroll" =>
        LET passed == PassedHeaders(dom, last.args[1])
        IN /\ Cardinality(ActiveLinks(dom)) <= 1
           /\ IF passed = {} THEN ActiveLinks(dom) = {}
              ELSE LET lowest == CHOOSE i \in passed : \A j \in passed :
                                     offsetTop(dom, j) <= offsetTop(dom, i)
                   IN ActiveLinks(dom) =
                          {k \in 1..Len(dom.sidebar) :
                               dom.sidebar[k].section = dom.main[lowest].id}

\* a scroll event that moved the active mark from one entry to a later one
\* while more than one heading had been passed
C16_Witness ==
    /\ last.op = "scroll"
    /\ Cardinality(PassedHeaders(dom, last.args[1])) > 1
    /\ ActiveLinks(last.before) # {}
    /\ ActiveLinks(dom) # {}
    /\ ActiveLinks(dom) # ActiveLinks(last.before)

\* a scroll event above every heading's threshold cleared the active mark
C16_WitnessNonePassed ==
    /\ last.op = "scroll"
    /\ PassedHeaders(dom, last.args[1]) = {}
    /\ ActiveLinks(last.before) # {}

====
